---- MODULE Spec2Model ----
(***************************************************************************)
(* Usage-budgeted LLM orchestration of the Digital Wardrobe backend:       *)
(* UsageTracker and LLMService (backend/app/llm_service.py), the           *)
(* recommendation path (backend/app/outfit_recommender.py) and the         *)
(* suggest / save endpoints (backend/app/main.py).                         *)
(*                                                                         *)
(* Time is the wall clock read by datetime.now(), counted in whole hours.  *)
(* Money is counted in units of 0.0000005 USD, the cost of one input token *)
(* of gpt-3.5-turbo, so that every rate of MODEL_COSTS is an integer per   *)
(* token; float rounding of monthly_cost is not modelled.                  *)
(***************************************************************************)
EXTENDS Integers, FiniteSets, Sequences, TLC

(* ------------------------------ bounds -------------------------------- *)
\* number of caller threads of the service
NumThreads == 2
\* last instant of the wall clock, in hours
MaxNow == 9
\* scaled calendar: hours in a day, days in a month
HoursPerDay == 2
DaysPerMonth == 2
\* limits read from the environment (defaults 230, 10, 5.00 USD), scaled
max_daily == 3
max_hourly == 2
monthly_budget == 4
\* cap on the cost recorded within one calendar month
MaxSpent == 6
UnitsPerCent == 2
MaxItems == 3
MaxTokens == 3
SetBackAt == 4

Threads == 1 .. NumThreads
\* the event loop that runs the async handlers of main.py one at a time
Loop == 1
\* cap on the counters, above every overshoot the threads can produce
MaxCount == max_daily + NumThreads + 1

(* ------------------------------ calendar ------------------------------ *)
\* now.date(), as a day number
DateOf(n) == n \div HoursPerDay
\* now.hour
HourOf(n) == n % HoursPerDay
\* now.date().replace(day=1), as a month number
MonthStart(n) == n \div (HoursPerDay * DaysPerMonth)

(* ---------------------------- cost estimate --------------------------- *)
LLM_MODEL == "gpt-3.5-turbo"

\* rates per token, in units of 0.0000005 USD
MODEL_COSTS ==
  [m \in {"gpt-3.5-turbo", "gpt-4", "gpt-4-turbo"} |->
     CASE m = "gpt-3.5-turbo" -> [input |-> 1, output |-> 3]
       [] m = "gpt-4" -> [input |-> 60, output |-> 120]
       [] m = "gpt-4-turbo" -> [input |-> 20, output |-> 60]]

\* _estimate_cost with // where the code has /
estimate_cost_floor_division(model, input_tokens, output_tokens) ==
  LET costs == IF model \in DOMAIN MODEL_COSTS
               THEN MODEL_COSTS[model]
               ELSE MODEL_COSTS["gpt-3.5-turbo"]
  IN  (input_tokens \div 1000) * 1000 * costs.input +
      (output_tokens \div 1000) * 1000 * costs.output

estimate_cost(model, input_tokens, output_tokens) ==
  LET costs == IF model \in DOMAIN MODEL_COSTS
               THEN MODEL_COSTS[model]
               ELSE MODEL_COSTS["gpt-3.5-turbo"]
  IN  input_tokens * costs.input + output_tokens * costs.output

\* token counts (prompt_tokens, completion_tokens) a response may report
TokenPairs == {<<1, 0>>, <<0, 1>>}

(* ----------------------------- UsageTracker --------------------------- *)
\* UsageTracker.__init__ at wall-clock instant n; monthly_reset is a
\* datetime there, and a date after the first monthly reset
NewTracker(n) ==
  [daily_count |-> 0,
   hourly_count |-> 0,
   monthly_cost |-> 0,
   last_reset_day |-> DateOf(n),
   last_reset_hour |-> HourOf(n),
   monthly_reset |-> [is_datetime |-> TRUE, month |-> MonthStart(n)]]

\* the condition of line 41, which Python reads as
\*   (current_month_start > monthly_reset.date()) if isinstance(...) else monthly_reset
\* and a date object is always true
MonthlyResetDue(u, n) ==
  IF u.monthly_reset.is_datetime
  THEN MonthStart(n) > u.monthly_reset.month
  ELSE TRUE

DailyResetDue(u, n) == DateOf(n) > u.last_reset_day

HourlyResetDue(u, n) == HourOf(n) # u.last_reset_hour

\* reset_if_needed with the monthly test nested under the hourly one
reset_if_needed_monthly_nested(u, n) ==
  LET u1 == IF DailyResetDue(u, n)
            THEN [u EXCEPT !.daily_count = 0, !.last_reset_day = DateOf(n)]
            ELSE u
  IN  IF HourlyResetDue(u1, n)
      THEN LET u2 == [u1 EXCEPT !.hourly_count = 0,
                                !.last_reset_hour = HourOf(n)]
           IN  IF MonthlyResetDue(u2, n)
               THEN [u2 EXCEPT !.monthly_cost = 0,
                               !.monthly_reset = [is_datetime |-> FALSE,
                                                  month |-> MonthStart(n)]]
               ELSE u2
      ELSE u1

reset_if_needed(u, n) ==
  LET u1 == IF DailyResetDue(u, n)
            THEN [u EXCEPT !.daily_count = 0, !.last_reset_day = DateOf(n)]
            ELSE u
      u2 == IF HourlyResetDue(u1, n)
            THEN [u1 EXCEPT !.hourly_count = 0, !.last_reset_hour = HourOf(n)]
            ELSE u1
  IN  IF MonthlyResetDue(u2, n)
      THEN [u2 EXCEPT !.monthly_cost = 0,
                      !.monthly_reset = [is_datetime |-> FALSE,
                                         month |-> MonthStart(n)]]
      ELSE u2

\* can_make_request with the order of the daily and monthly tests swapped
can_make_request_daily_first(u, n) ==
  LET r == reset_if_needed(u, n)
  IN  IF r.daily_count >= max_daily
      THEN [allowed |-> FALSE, reason |-> "daily", tracker |-> r]
      ELSE IF r.monthly_cost >= monthly_budget
      THEN [allowed |-> FALSE, reason |-> "monthly", tracker |-> r]
      ELSE IF r.hourly_count >= max_hourly
      THEN [allowed |-> FALSE, reason |-> "hourly", tracker |-> r]
      ELSE [allowed |-> TRUE, reason |-> "", tracker |-> r]

\* can_make_request that zeroes hourly_count when it denies for the hour
can_make_request_denial_clears_hour(u, n) ==
  LET r == reset_if_needed(u, n)
  IN  IF r.monthly_cost >= monthly_budget
      THEN [allowed |-> FALSE, reason |-> "monthly", tracker |-> r]
      ELSE IF r.daily_count >= max_daily
      THEN [allowed |-> FALSE, reason |-> "daily", tracker |-> r]
      ELSE IF r.hourly_count >= max_hourly
      THEN [allowed |-> FALSE, reason |-> "hourly",
            tracker |-> [r EXCEPT !.hourly_count = 0]]
      ELSE [allowed |-> TRUE, reason |-> "", tracker |-> r]

\* can_make_request: the decision, its reason and the tracker as the
\* reset leaves it
can_make_request(u, n) ==
  LET r == reset_if_needed(u, n)
  IN  IF r.monthly_cost >= monthly_budget
      THEN [allowed |-> FALSE, reason |-> "monthly", tracker |-> r]
      ELSE IF r.daily_count >= max_daily
      THEN [allowed |-> FALSE, reason |-> "daily", tracker |-> r]
      ELSE IF r.hourly_count >= max_hourly
      THEN [allowed |-> FALSE, reason |-> "hourly", tracker |-> r]
      ELSE [allowed |-> TRUE, reason |-> "", tracker |-> r]

\* record_request that stores the last cost where it should add it
record_request_last_cost(u, cost) ==
  [u EXCEPT !.daily_count = @ + 1,
            !.hourly_count = @ + 1,
            !.monthly_cost = cost]

\* record_request with the hourly increment left out
record_request_no_hourly(u, cost) ==
  [u EXCEPT !.daily_count = @ + 1, !.monthly_cost = @ + cost]

record_request(u, cost) ==
  [u EXCEPT !.daily_count = @ + 1,
            !.hourly_count = @ + 1,
            !.monthly_cost = @ + cost]

\* the three counters of a tracker
Counts(u) == <<u.daily_count, u.hourly_count, u.monthly_cost>>

\* round(x, 2) of an amount of x units, in cents: the nearest cent, and
\* either neighbour when x lies halfway (the float decides)
round_cents(x) ==
  LET a == IF x < 0 THEN 0 - x ELSE x
      q == a \div UnitsPerCent
      r == a % UnitsPerCent
      near == IF 2 * r < UnitsPerCent THEN {q}
              ELSE IF 2 * r > UnitsPerCent THEN {q + 1}
              ELSE {q, q + 1}
  IN  IF x < 0 THEN {0 - c : c \in near} ELSE near

\* get_usage_stats up to its last entry: reset_if_needed, then the
\* dictionary entries read from the counters; the entries a run may yield
get_usage_stats(u, n) ==
  LET r == reset_if_needed(u, n)
  IN  [tracker |-> r,
       entries |->
         {[filled |-> "counts",
           read_at |-> n,
           daily_requests |-> r.daily_count,
           hourly_requests |-> r.hourly_count,
           monthly_cost_usd |-> c,
           remaining_budget_usd |-> b,
           can_make_request |-> FALSE] :
            c \in round_cents(r.monthly_cost),
            b \in round_cents(monthly_budget - r.monthly_cost)}]

(* ----------------------------- DemoLLMService ------------------------- *)
VALID_CATEGORIES == {"shirt", "pants", "shorts", "hoodie"}

\* the wardrobe lists a call may be given, as the lists of their
\* categories
WardrobeLists == UNION {[1 .. n -> VALID_CATEGORIES] : n \in 0 .. MaxItems}

\* the items of a list of categories: item i carries id i
Items(categories) ==
  [i \in 1 .. Len(categories) |-> [id |-> i, category |-> categories[i]]]

IsTop(item) == item.category \in {"shirt", "hoodie"}
IsBottom(item) == item.category \in {"pants", "shorts"}

\* generate_outfit_recommendation of the demo service that takes the last
\* matching item of each role
demo_generate_last_match(wardrobe_items) ==
  LET tops == SelectSeq(wardrobe_items, IsTop)
      bottoms == SelectSeq(wardrobe_items, IsBottom)
      roles == (IF tops # <<>> THEN {"top"} ELSE {}) \cup
               (IF bottoms # <<>> THEN {"bottom"} ELSE {})
  IN  [returned |-> TRUE,
       outfit |-> [r \in roles |-> IF r = "top" THEN tops[Len(tops)].id
                                   ELSE bottoms[Len(bottoms)].id],
       cost_usd |-> 0,
       tokens_used |-> 0]

\* DemoLLMService.generate_outfit_recommendation: the ids it puts in the
\* outfit, and the cost and tokens of its metadata
demo_generate_outfit_recommendation(wardrobe_items) ==
  LET tops == SelectSeq(wardrobe_items, IsTop)
      bottoms == SelectSeq(wardrobe_items, IsBottom)
      roles == (IF tops # <<>> THEN {"top"} ELSE {}) \cup
               (IF bottoms # <<>> THEN {"bottom"} ELSE {})
  IN  [returned |-> TRUE,
       outfit |-> [r \in roles |-> IF r = "top" THEN tops[1].id
                                   ELSE bottoms[1].id],
       cost_usd |-> 0,
       tokens_used |-> 0]

(* -------------------------------- state ------------------------------- *)
VARIABLES
  now,       \* the wall clock
  tracker,   \* the UsageTracker of the one LLMService
  pc,        \* per thread: position in its request
  path,      \* per thread: "suggest" or "save"
  gate,      \* per thread: (can_proceed, reason) of its gate check
  resp,      \* per thread: the response of its external call
  outcome,   \* per thread: how its last request ended
  calls,     \* per thread: external calls dispatched by its request
  recs,      \* per thread: record_request calls made by its request
  charged,   \* per thread: the cost its request passed to record_request
  pre,       \* per thread: the counters at the start of the request, or
             \*             right after the reset of its gate
  hourRecs,  \* record_request calls in the current wall-clock hour
  dayRecs,   \* record_request calls in the current wall-clock day
  spent,     \* cost passed to record_request in the current calendar month
  hourOK,    \* hourly_count was zeroed in this hour before any record of it
  dayOK,     \* daily_count was zeroed in this day before any record of it
  costSince, \* cost passed to record_request since monthly_cost was last zeroed
  daySince,  \* record_request calls since daily_count was last zeroed
  hourSince, \* record_request calls since hourly_count was last zeroed
  hourResetAt, \* the clock when hourly_count was last zeroed
  op,        \* the tracker method the last step called, "none" if none
  was,       \* the tracker as that call found it
  stats,     \* per thread: the dictionary its get_usage_stats is building
  returned,  \* the dictionary get_usage_stats returned, until a request starts
  credential, \* OPENAI_API_KEY is set in the environment
  service,   \* the module global _llm_service: "none" or "live"
  demo,      \* a call of DemoLLMService: its wardrobe_items and response
  http,      \* the response suggest_outfit sent for the request of the loop
  est,       \* a call of _estimate_cost: its model, token counts and result
  instances, \* the usage_tracker of every LLMService constructed so far
  llm_service, \* which of them _llm_service names, 0 while it is None
  outfit_recommender, \* which of them _outfit_recommender holds, 0 while None
  boot       \* per thread: its position in the getters and the one it got

vars == <<now, tracker, pc, path, gate, resp, outcome, calls, recs, charged, pre,
          hourRecs, dayRecs, spent, hourOK, dayOK, costSince, daySince,
          hourSince, hourResetAt, op, was, stats, returned, credential,
          service,
          demo, est, http, instances, llm_service, outfit_recommender, boot>>

reqVars == <<pc, path, gate, resp, outcome, calls, recs, charged, pre, stats,
            returned, http>>
bootVars == <<instances, llm_service, outfit_recommender, boot>>
envVars == <<credential, service, demo, est, bootVars>>
ghostVars == <<hourRecs, dayRecs, spent, hourOK, dayOK, costSince, daySince,
               hourSince, hourResetAt>>

NoGate == [allowed |-> FALSE, reason |-> "unchecked"]
NoResp == [content |-> "none", tokens |-> <<0, 0>>]
NoOutcome == [kind |-> "none", detail |-> ""]
NoStats == [filled |-> "no", read_at |-> 0, daily_requests |-> 0, hourly_requests |-> 0,
            monthly_cost_usd |-> 0, remaining_budget_usd |-> 0,
            can_make_request |-> FALSE]
NoResponse == [returned |-> FALSE, outfit |-> <<>>, cost_usd |-> 0,
               tokens_used |-> 0]
NoDemo == [wardrobe_items |-> <<>>, response |-> NoResponse]
\* no response sent
NoHttp == [status |-> 0, detail |-> <<>>]
NoEst == [model |-> LLM_MODEL, input_tokens |-> 0, output_tokens |-> 0,
          called |-> FALSE, cost |-> 0]

\* a thread outside the getters, holding no LLMService
NoBoot == [at |-> "idle", got |-> 0]

\* no request has been made yet
Quiet ==
  /\ pc = [t \in Threads |-> "idle"]
  /\ path = [t \in Threads |-> "suggest"]
  /\ gate = [t \in Threads |-> NoGate]
  /\ resp = [t \in Threads |-> NoResp]
  /\ outcome = [t \in Threads |-> NoOutcome]
  /\ calls = [t \in Threads |-> 0]
  /\ recs = [t \in Threads |-> 0]
  /\ charged = [t \in Threads |-> 0]
  /\ pre = [t \in Threads |-> <<0, 0, 0>>]
  /\ stats = [t \in Threads |-> NoStats]
  /\ returned = NoStats
  /\ http = NoHttp
  /\ instances = <<>>
  /\ llm_service = 0
  /\ outfit_recommender = 0
  /\ boot = [t \in Threads |-> NoBoot]
  /\ hourRecs = 0
  /\ dayRecs = 0
  /\ spent = 0
  /\ hourOK = TRUE
  /\ dayOK = TRUE
  /\ hourResetAt = now
  /\ op = "none"
  /\ was = NewTracker(0)

\* the service is constructed at instant 0 of the model's clock
Init ==
  /\ now = 0
  /\ tracker = NewTracker(now)
  /\ costSince = 0
  /\ daySince = 0
  /\ hourSince = 0
  /\ Quiet
  /\ credential = TRUE
  /\ service = "live"
  /\ demo = NoDemo
  /\ est = NoEst

(* ------------------------------- the clock ---------------------------- *)
\* the step calls no method of the tracker
NoCall ==
  /\ op' = "none"
  /\ was' = NewTracker(0)

\* the step calls the method named m of the tracker
Called(m) ==
  /\ op' = m
  /\ was' = tracker

\* one hour passes
Tick ==
  /\ now < MaxNow
  /\ now' = now + 1
  /\ hourRecs' = 0
  /\ hourOK' = FALSE
  /\ dayRecs' = IF DateOf(now + 1) # DateOf(now) THEN 0 ELSE dayRecs
  /\ dayOK' = IF DateOf(now + 1) # DateOf(now) THEN FALSE ELSE dayOK
  /\ spent' = IF MonthStart(now + 1) # MonthStart(now) THEN 0 ELSE spent
  /\ NoCall
  /\ UNCHANGED <<envVars, tracker, reqVars, costSince, daySince, hourSince,
                 hourResetAt>>

\* the wall clock is set back by one hour, as at the end of daylight
\* saving time or by a correction of the system time
ClockBack ==
  /\ now = SetBackAt
  /\ now' = now - 1
  /\ hourRecs' = 0
  /\ hourOK' = FALSE
  /\ dayRecs' = IF DateOf(now - 1) # DateOf(now) THEN 0 ELSE dayRecs
  /\ dayOK' = IF DateOf(now - 1) # DateOf(now) THEN FALSE ELSE dayOK
  /\ spent' = IF MonthStart(now - 1) # MonthStart(now) THEN 0 ELSE spent
  /\ NoCall
  /\ UNCHANGED <<envVars, tracker, reqVars, costSince, daySince, hourSince,
                 hourResetAt>>

\* what a run of reset_if_needed means for the window bookkeeping
ResetBookkeeping ==
  /\ hourOK' = IF HourlyResetDue(tracker, now) THEN hourRecs = 0 ELSE hourOK
  /\ dayOK' = IF DailyResetDue(tracker, now) THEN dayRecs = 0 ELSE dayOK
  /\ costSince' = IF MonthlyResetDue(tracker, now) THEN 0 ELSE costSince
  /\ daySince' = IF DailyResetDue(tracker, now) THEN 0 ELSE daySince
  /\ hourSince' = IF HourlyResetDue(tracker, now) THEN 0 ELSE hourSince
  /\ hourResetAt' = IF HourlyResetDue(tracker, now) THEN now ELSE hourResetAt
  /\ UNCHANGED <<hourRecs, dayRecs, spent>>

\* what a record_request(cost) means for the window bookkeeping
RecordBookkeeping(cost) ==
  /\ hourRecs' = hourRecs + 1
  /\ dayRecs' = dayRecs + 1
  /\ spent' = spent + cost
  /\ costSince' = costSince + cost
  /\ daySince' = daySince + 1
  /\ hourSince' = hourSince + 1
  /\ UNCHANGED <<hourOK, dayOK, hourResetAt>>

(* ------------------------ the answer of the endpoint ------------------ *)
\* messages of exceptions are lists of words
\* str.lower() of a word
lower(w) ==
  CASE w = "Rate" -> "rate"
    [] w = "Monthly" -> "monthly"
    [] w = "Daily" -> "daily"
    [] w = "Hourly" -> "hourly"
    [] w = "Connection" -> "connection"
    [] w = "Error" -> "error"
    [] w = "Expecting" -> "expecting"
    [] OTHER -> w

\* the test  phrase in error_msg  of Python strings
Contains(error_msg, phrase) ==
  \E i \in 1 .. Len(error_msg) - Len(phrase) + 1 :
    SubSeq(error_msg, i, i + Len(phrase) - 1) = phrase

\* the reason can_make_request returns with a denial
ReasonText(reason) ==
  CASE reason = "monthly" -> <<"Monthly", "budget", "limit", "reached">>
    [] reason = "daily" -> <<"Daily", "request", "limit", "reached">>
    [] reason = "hourly" -> <<"Hourly", "request", "limit", "reached">>

\* the message of the exception the gate raises on a denial
GateError(reason) == <<"Rate", "limit", "exceeded", ":">> \o ReasonText(reason)

\* messages of the exceptions client.chat.completions.create may raise: the
\* text is the client library's or the remote server's
TransportErrors ==
  {<<"Connection", "error">>,
   <<"Error", "code", ":", "429", "-", "Rate", "limit", "exceeded">>}

\* the message of the exception json.loads raises
JsonError == <<"Expecting", "value">>

\* the answer to a request that raised nothing
Ok200 == [status |-> 200, detail |-> <<>>]

\* the except clause of suggest_outfit: the HTTPException it raises for an
\* exception with the message error_msg
suggest_outfit_except(error_msg) ==
  IF \/ Contains(error_msg, <<"Rate", "limit", "exceeded">>)
     \/ Contains([i \in DOMAIN error_msg |-> lower(error_msg[i])],
                 <<"budget", "limit">>)
  THEN [status |-> 429, detail |-> error_msg]
  ELSE [status |-> 500,
        detail |-> <<"Failed", "to", "generate", "outfit", ":">> \o error_msg]

\* suggest_outfit runs on the event loop and answers its request with r; a
\* caller on another thread has called the recommender itself
Answer(t, r) == http' = IF t = Loop THEN r ELSE http

(* --------------------------- the two requests ------------------------- *)
\* a thread that is free to take a request
Free(t) == pc[t] \in {"idle", "done"}

\* local state of a request that starts
StartRequest(t, p) ==
  /\ path' = [path EXCEPT ![t] = p]
  /\ gate' = [gate EXCEPT ![t] = NoGate]
  /\ resp' = [resp EXCEPT ![t] = NoResp]
  /\ calls' = [calls EXCEPT ![t] = 0]
  /\ recs' = [recs EXCEPT ![t] = 0]
  /\ charged' = [charged EXCEPT ![t] = 0]
  /\ pre' = [pre EXCEPT ![t] = Counts(tracker)]
  /\ stats' = [stats EXCEPT ![t] = NoStats]
  /\ returned' = NoStats

\* generate_outfit that counts the request before it looks at the wardrobe
SuggestCountsEmpty(t) ==
  /\ Free(t)
  /\ service = "live"
  /\ StartRequest(t, "suggest")
  /\ \E empty \in BOOLEAN :
       IF empty
       THEN /\ pc' = [pc EXCEPT ![t] = "done"]
            /\ outcome' = [outcome EXCEPT ![t] =
                             [kind |-> "not_fulfilled", detail |-> ""]]
            /\ Answer(t, Ok200)
            /\ tracker' = record_request(tracker, 0)
       ELSE /\ pc' = [pc EXCEPT ![t] = "gate"]
            /\ outcome' = [outcome EXCEPT ![t] = NoOutcome]
            /\ Answer(t, NoHttp)
            /\ UNCHANGED tracker
  /\ NoCall
  /\ UNCHANGED <<envVars, now, ghostVars>>

\* POST /api/outfits/suggest up to the call of the LLM service:
\* OutfitRecommender.generate_outfit returns at once on an empty wardrobe
Suggest(t) ==
  /\ Free(t)
  /\ service = "live"
  /\ StartRequest(t, "suggest")
  /\ \E empty \in BOOLEAN :
       IF empty
       THEN /\ pc' = [pc EXCEPT ![t] = "done"]
            /\ outcome' = [outcome EXCEPT ![t] =
                             [kind |-> "not_fulfilled", detail |-> ""]]
            /\ Answer(t, Ok200)
       ELSE /\ pc' = [pc EXCEPT ![t] = "gate"]
            /\ outcome' = [outcome EXCEPT ![t] = NoOutcome]
            /\ Answer(t, NoHttp)
  /\ NoCall
  /\ UNCHANGED <<envVars, now, tracker, ghostVars>>

\* POST /api/outfits/save up to the naming call: no gate check on this path
Save(t) ==
  /\ Free(t)
  /\ service = "live"
  /\ StartRequest(t, "save")
  /\ pc' = [pc EXCEPT ![t] = "call"]
  /\ outcome' = [outcome EXCEPT ![t] = NoOutcome]
  /\ Answer(t, NoHttp)
  /\ NoCall
  /\ UNCHANGED <<envVars, now, tracker, ghostVars>>

\* the gate of generate_outfit_recommendation that logs a denial and goes on
GateWarnOnly(t) ==
  /\ pc[t] = "gate"
  /\ LET g == can_make_request(tracker, now)
     IN  /\ tracker' = g.tracker
         /\ gate' = [gate EXCEPT ![t] =
                       [allowed |-> g.allowed, reason |-> g.reason]]
         /\ pre' = [pre EXCEPT ![t] = Counts(g.tracker)]
         /\ pc' = [pc EXCEPT ![t] = "call"]
         /\ UNCHANGED <<outcome, http>>
  /\ ResetBookkeeping
  /\ Called("can_make_request")
  /\ UNCHANGED <<envVars, now, path, resp, calls, recs, charged, stats,
                 returned>>

\* the gate of generate_outfit_recommendation, counting the attempt
GateCounted(t) ==
  /\ pc[t] = "gate"
  /\ LET g == can_make_request(tracker, now)
     IN  /\ tracker' = record_request(g.tracker, 0)
         /\ gate' = [gate EXCEPT ![t] =
                       [allowed |-> g.allowed, reason |-> g.reason]]
         /\ pre' = [pre EXCEPT ![t] = Counts(g.tracker)]
         /\ IF g.allowed
            THEN /\ pc' = [pc EXCEPT ![t] = "call"]
                 /\ UNCHANGED <<outcome, http>>
            ELSE /\ pc' = [pc EXCEPT ![t] = "done"]
                 /\ outcome' = [outcome EXCEPT ![t] =
                                  [kind |-> "rate_limit", detail |-> g.reason]]
                 /\ Answer(t, suggest_outfit_except(GateError(g.reason)))
  /\ ResetBookkeeping
  /\ Called("can_make_request")
  /\ UNCHANGED <<envVars, now, path, resp, calls, recs, charged, stats,
                 returned>>

\* the gate of generate_outfit_recommendation: can_make_request, and
\* "Rate limit exceeded: <reason>" raised on a denial
Gate(t) ==
  /\ pc[t] = "gate"
  /\ LET g == can_make_request(tracker, now)
     IN  /\ tracker' = g.tracker
         /\ gate' = [gate EXCEPT ![t] =
                       [allowed |-> g.allowed, reason |-> g.reason]]
         /\ pre' = [pre EXCEPT ![t] = Counts(g.tracker)]
         /\ IF g.allowed
            THEN /\ pc' = [pc EXCEPT ![t] = "call"]
                 /\ UNCHANGED <<outcome, http>>
            ELSE /\ pc' = [pc EXCEPT ![t] = "done"]
                 /\ outcome' = [outcome EXCEPT ![t] =
                                  [kind |-> "rate_limit", detail |-> g.reason]]
                 /\ Answer(t, suggest_outfit_except(GateError(g.reason)))
  /\ ResetBookkeeping
  /\ Called("can_make_request")
  /\ UNCHANGED <<envVars, now, path, resp, calls, recs, charged, stats,
                 returned>>

\* client.chat.completions.create is entered: the request leaves the process
Dispatch(t) ==
  /\ pc[t] = "call"
  /\ pc' = [pc EXCEPT ![t] = "wait"]
  /\ calls' = [calls EXCEPT ![t] = @ + 1]
  /\ UNCHANGED <<http, envVars, now, tracker, path, gate, resp, outcome, recs,
                 charged, pre, stats,
                 returned, ghostVars>>
  /\ NoCall

\* the external model answers with text and token counts; the text of the
\* suggest path is valid JSON or not
Respond(t) ==
  /\ pc[t] = "wait"
  /\ tracker.daily_count < MaxCount
  /\ tracker.hourly_count < MaxCount
  /\ \E content \in {"json", "text"}, tk \in TokenPairs :
       /\ path[t] = "save" => content = "text"
       /\ spent + estimate_cost(LLM_MODEL, tk[1], tk[2]) <= MaxSpent
       /\ tracker.monthly_cost + estimate_cost(LLM_MODEL, tk[1], tk[2])
            <= MaxSpent
       /\ resp' = [resp EXCEPT ![t] = [content |-> content, tokens |-> tk]]
  /\ pc' = [pc EXCEPT ![t] = "ret"]
  /\ UNCHANGED <<http, envVars, now, tracker, path, gate, outcome, calls, recs,
                 charged, pre, stats,
                 returned, ghostVars>>
  /\ NoCall

\* the external call raises, and the tracker is charged all the same
FailCharged(t) ==
  /\ pc[t] = "wait"
  /\ pc' = [pc EXCEPT ![t] = "done"]
  /\ outcome' = [outcome EXCEPT ![t] =
                   [kind |-> "failed",
                    detail |-> IF path[t] = "suggest" THEN "transport"
                               ELSE "name_error"]]
  /\ IF path[t] = "suggest"
     THEN \E error_msg \in TransportErrors :
            Answer(t, suggest_outfit_except(error_msg))
     ELSE UNCHANGED http
  /\ tracker' = record_request(tracker, 0)
  /\ NoCall
  /\ UNCHANGED <<envVars, now, path, gate, resp, calls, recs, charged, pre,
                 stats,
                 returned, ghostVars>>

\* the external call raises: generate_outfit_recommendation re-raises it;
\* save_outfit catches it and fails on the datetime it never imported
Fail(t) ==
  /\ pc[t] = "wait"
  /\ pc' = [pc EXCEPT ![t] = "done"]
  /\ outcome' = [outcome EXCEPT ![t] =
                   [kind |-> "failed",
                    detail |-> IF path[t] = "suggest" THEN "transport"
                               ELSE "name_error"]]
  /\ IF path[t] = "suggest"
     THEN \E error_msg \in TransportErrors :
            Answer(t, suggest_outfit_except(error_msg))
     ELSE UNCHANGED http
  /\ UNCHANGED <<envVars, now, tracker, path, gate, resp, calls, recs, charged,
                 pre, stats,
                 returned, ghostVars>>
  /\ NoCall

\* the cost is recorded only when the text parses
RecordIfJson(t) ==
  /\ pc[t] = "ret"
  /\ LET cost == estimate_cost(LLM_MODEL, resp[t].tokens[1], resp[t].tokens[2])
     IN  IF path[t] = "suggest" /\ resp[t].content # "json"
         THEN /\ UNCHANGED <<tracker, recs, charged, ghostVars>>
              /\ NoCall
         ELSE /\ tracker' = record_request(tracker, cost)
              /\ recs' = [recs EXCEPT ![t] = @ + 1]
              /\ charged' = [charged EXCEPT ![t] = cost]
              /\ RecordBookkeeping(cost)
              /\ Called("record_request")
  /\ IF path[t] = "suggest"
     THEN /\ pc' = [pc EXCEPT ![t] = "parse"]
          /\ UNCHANGED outcome
     ELSE /\ pc' = [pc EXCEPT ![t] = "done"]
          /\ outcome' = [outcome EXCEPT ![t] =
                           [kind |-> "saved", detail |-> ""]]
  /\ UNCHANGED <<http, envVars, now, path, gate, resp, calls, pre, stats,
                 returned>>

\* record_request is called twice for the one call
RecordTwice(t) ==
  /\ pc[t] = "ret"
  /\ LET cost == estimate_cost(LLM_MODEL, resp[t].tokens[1], resp[t].tokens[2])
     IN  /\ tracker' = record_request(record_request(tracker, cost), cost)
         /\ recs' = [recs EXCEPT ![t] = @ + 2]
         /\ charged' = [charged EXCEPT ![t] = cost]
         /\ RecordBookkeeping(cost)
         /\ Called("record_request")
  /\ IF path[t] = "suggest"
     THEN /\ pc' = [pc EXCEPT ![t] = "parse"]
          /\ UNCHANGED outcome
     ELSE /\ pc' = [pc EXCEPT ![t] = "done"]
          /\ outcome' = [outcome EXCEPT ![t] =
                           [kind |-> "saved", detail |-> ""]]
  /\ UNCHANGED <<http, envVars, now, path, gate, resp, calls, pre, stats,
                 returned>>

\* the call has returned: the cost is estimated from the reported tokens
\* and record_request(cost) is called, on both paths; save_outfit is then
\* through with the model
Record(t) ==
  /\ pc[t] = "ret"
  /\ LET cost == estimate_cost(LLM_MODEL, resp[t].tokens[1], resp[t].tokens[2])
     IN  /\ tracker' = record_request(tracker, cost)
         /\ recs' = [recs EXCEPT ![t] = @ + 1]
         /\ charged' = [charged EXCEPT ![t] = cost]
         /\ RecordBookkeeping(cost)
         /\ Called("record_request")
  /\ IF path[t] = "suggest"
     THEN /\ pc' = [pc EXCEPT ![t] = "parse"]
          /\ UNCHANGED outcome
     ELSE /\ pc' = [pc EXCEPT ![t] = "done"]
          /\ outcome' = [outcome EXCEPT ![t] =
                           [kind |-> "saved", detail |-> ""]]
  /\ UNCHANGED <<http, envVars, now, path, gate, resp, calls, pre, stats,
                 returned>>

\* json.loads of the text, then the metadata with get_usage_stats(), which
\* runs reset_if_needed and can_make_request; text that is not JSON raises.
\* The two clock readings of get_usage_stats are one instant here; Usage and
\* UsageCheck take them apart.
Parse(t) ==
  /\ pc[t] = "parse"
  /\ pc' = [pc EXCEPT ![t] = "done"]
  /\ IF resp[t].content = "json"
     THEN /\ tracker' = can_make_request(
                          get_usage_stats(tracker, now).tracker, now).tracker
          /\ ResetBookkeeping
          /\ Called("get_usage_stats")
          /\ outcome' = [outcome EXCEPT ![t] = [kind |-> "ok", detail |-> ""]]
          /\ Answer(t, Ok200)
     ELSE /\ UNCHANGED <<tracker, ghostVars>>
          /\ NoCall
          /\ outcome' = [outcome EXCEPT ![t] =
                           [kind |-> "failed", detail |-> "malformed"]]
          /\ Answer(t, suggest_outfit_except(JsonError))
  /\ UNCHANGED <<envVars, now, path, gate, resp, calls, recs, charged, pre,
                 stats, returned>>

\* GET /api/outfits/usage: get_usage_stats() up to its last entry
Usage(t) ==
  /\ Free(t)
  /\ service = "live"
  /\ path' = [path EXCEPT ![t] = "usage"]
  /\ gate' = [gate EXCEPT ![t] = NoGate]
  /\ resp' = [resp EXCEPT ![t] = NoResp]
  /\ calls' = [calls EXCEPT ![t] = 0]
  /\ recs' = [recs EXCEPT ![t] = 0]
  /\ charged' = [charged EXCEPT ![t] = 0]
  /\ pre' = [pre EXCEPT ![t] = Counts(tracker)]
  /\ \E e \in get_usage_stats(tracker, now).entries :
       stats' = [stats EXCEPT ![t] = e]
  /\ tracker' = get_usage_stats(tracker, now).tracker
  /\ ResetBookkeeping
  /\ Called("get_usage_stats")
  /\ returned' = NoStats
  /\ pc' = [pc EXCEPT ![t] = "stats"]
  /\ outcome' = [outcome EXCEPT ![t] = NoOutcome]
  /\ Answer(t, NoHttp)
  /\ UNCHANGED <<envVars, now>>

\* the last entry of the dictionary of get_usage_stats, can_make_request()[0],
\* which reads the clock again; the dictionary is then returned
UsageCheck(t) ==
  /\ pc[t] = "stats"
  /\ LET g == can_make_request(tracker, now)
     IN  /\ tracker' = g.tracker
         /\ returned' = [stats[t] EXCEPT !.filled = "all",
                                         !.can_make_request = g.allowed]
         /\ stats' = [stats EXCEPT ![t] = NoStats]
  /\ ResetBookkeeping
  /\ Called("can_make_request")
  /\ pc' = [pc EXCEPT ![t] = "done"]
  /\ outcome' = [outcome EXCEPT ![t] = [kind |-> "usage", detail |-> ""]]
  /\ UNCHANGED <<http, envVars, now, path, gate, resp, calls, recs, charged, pre>>

\* one step of a recommendation request of thread t, or of the calls it
\* shares with save_outfit
Recommend(t) ==
  \/ Suggest(t)
  \/ Gate(t)
  \/ Dispatch(t)
  \/ Respond(t)
  \/ Fail(t)
  \/ Record(t)
  \/ Parse(t)

(* ------------------------- the service is made ----------------------- *)
\* no LLMService has been made yet; the tracker shown is not yet there
InitStart ==
  /\ now = 0
  /\ tracker = NewTracker(now)
  /\ costSince = 0
  /\ daySince = 0
  /\ hourSince = 0
  /\ Quiet
  /\ credential \in BOOLEAN
  /\ service = "none"
  /\ demo = NoDemo
  /\ est = NoEst

\* get_llm_service that keeps the instance whose __init__ raised
StartKeepsInstance(t) ==
  /\ Free(t)
  /\ service = "none"
  /\ service' = "live"
  /\ tracker' = NewTracker(now)
  /\ costSince' = 0
  /\ daySince' = 0
  /\ hourSince' = 0
  /\ hourResetAt' = now
  /\ hourOK' = TRUE
  /\ dayOK' = TRUE
  /\ IF credential
     THEN UNCHANGED <<pc, outcome>>
     ELSE /\ pc' = [pc EXCEPT ![t] = "done"]
          /\ outcome' = [outcome EXCEPT ![t] =
                           [kind |-> "failed", detail |-> "init"]]
  /\ NoCall
  /\ UNCHANGED <<http, now, path, gate, resp, calls, recs, charged, pre, stats,
                 returned,
                 hourRecs, dayRecs, spent, credential, demo, est, bootVars>>

\* get_llm_service() at the head of a handler while _llm_service is None:
\* LLMService() makes a UsageTracker and, with OPENAI_API_KEY set, the
\* client; without it __init__ raises, nothing is assigned to _llm_service
\* and the handler answers with status 500
Start(t) ==
  /\ Free(t)
  /\ service = "none"
  /\ IF credential
     THEN /\ service' = "live"
          /\ tracker' = NewTracker(now)
          /\ costSince' = 0
          /\ daySince' = 0
          /\ hourSince' = 0
          /\ hourResetAt' = now
          /\ hourOK' = TRUE
          /\ dayOK' = TRUE
          /\ UNCHANGED <<pc, outcome>>
     ELSE /\ pc' = [pc EXCEPT ![t] = "done"]
          /\ outcome' = [outcome EXCEPT ![t] =
                           [kind |-> "failed", detail |-> "init"]]
          /\ UNCHANGED <<service, tracker, costSince, daySince, hourSince,
                         hourResetAt, hourOK, dayOK>>
  /\ NoCall
  /\ UNCHANGED <<http, now, path, gate, resp, calls, recs, charged, pre, stats,
                 returned,
                 hourRecs, dayRecs, spent, credential, demo, est, bootVars>>

(* ---------------------- the getters under threads -------------------- *)
\* what the getters and the calls made through them leave alone
BootFrame ==
  UNCHANGED <<now, tracker, reqVars, ghostVars, op, was, credential, demo, est>>

\* the process before any LLMService is made, with OPENAI_API_KEY set
InitBoot == InitStart /\ credential

\* get_outfit_recommender() in suggest_outfit: the test of
\* _outfit_recommender; when it is None, OutfitRecommender() is entered
RecommenderCheck(t) ==
  /\ boot[t].at = "idle"
  /\ boot' = [boot EXCEPT ![t] =
                IF outfit_recommender = 0
                THEN [at |-> "recommender_init", got |-> 0]
                ELSE [at |-> "generate", got |-> outfit_recommender]]
  /\ UNCHANGED <<instances, llm_service, outfit_recommender, service>>
  /\ BootFrame

\* get_llm_service(), called by save_outfit or by OutfitRecommender.__init__:
\* the test of _llm_service; when it is set, the getter returns it, and
\* the recommender that asked for it is stored in _outfit_recommender
ServiceCheck(t) ==
  /\ boot[t].at \in {"idle", "recommender_init"}
  /\ IF llm_service = 0
     THEN /\ boot' = [boot EXCEPT ![t] =
                        [at |-> IF boot[t].at = "idle" THEN "service_init_save"
                                ELSE "service_init_recommender",
                         got |-> 0]]
          /\ UNCHANGED outfit_recommender
     ELSE IF boot[t].at = "idle"
     THEN /\ boot' = [boot EXCEPT ![t] = [at |-> "save", got |-> llm_service]]
          /\ UNCHANGED outfit_recommender
     ELSE /\ boot' = [boot EXCEPT ![t] =
                        [at |-> "generate", got |-> llm_service]]
          /\ outfit_recommender' = llm_service
  /\ UNCHANGED <<instances, llm_service, service>>
  /\ BootFrame

\* _llm_service = LLMService() of a caller that found _llm_service None: a
\* new LLMService with a new UsageTracker is stored and returned
ServiceMake(t) ==
  /\ boot[t].at \in {"service_init_save", "service_init_recommender"}
  /\ instances' = Append(instances, NewTracker(now))
  /\ llm_service' = Len(instances) + 1
  /\ service' = "live"
  /\ IF boot[t].at = "service_init_save"
     THEN /\ boot' = [boot EXCEPT ![t] =
                        [at |-> "save", got |-> Len(instances) + 1]]
          /\ UNCHANGED outfit_recommender
     ELSE /\ boot' = [boot EXCEPT ![t] =
                        [at |-> "generate", got |-> Len(instances) + 1]]
          /\ outfit_recommender' = Len(instances) + 1
  /\ BootFrame

\* generate_outfit_recommendation on the LLMService of the recommender the
\* thread got: the gate, and record_request when the gate allowed and the
\* external call returned
GenerateOn(t) ==
  /\ boot[t].at = "generate"
  /\ LET g == can_make_request(instances[boot[t].got], now)
     IN  \E returns \in BOOLEAN, tk \in TokenPairs :
           LET cost == estimate_cost(LLM_MODEL, tk[1], tk[2])
           IN  /\ returns => g.allowed
               /\ returns => g.tracker.monthly_cost + cost <= MaxSpent
               /\ ~returns => tk = <<1, 0>>
               /\ instances' = [instances EXCEPT ![boot[t].got] =
                                  IF returns THEN record_request(g.tracker, cost)
                                  ELSE g.tracker]
  /\ boot' = [boot EXCEPT ![t] = NoBoot]
  /\ UNCHANGED <<llm_service, outfit_recommender, service>>
  /\ BootFrame

\* the naming call of save_outfit on the LLMService its get_llm_service()
\* returned: record_request when the external call returned
SaveOn(t) ==
  /\ boot[t].at = "save"
  /\ \E returns \in BOOLEAN, tk \in TokenPairs :
       LET u == instances[boot[t].got]
           cost == estimate_cost(LLM_MODEL, tk[1], tk[2])
       IN  /\ returns => u.daily_count < MaxCount
           /\ returns => u.monthly_cost + cost <= MaxSpent
           /\ ~returns => tk = <<1, 0>>
           /\ instances' = [instances EXCEPT ![boot[t].got] =
                              IF returns THEN record_request(u, cost) ELSE u]
  /\ boot' = [boot EXCEPT ![t] = NoBoot]
  /\ UNCHANGED <<llm_service, outfit_recommender, service>>
  /\ BootFrame

\* one step of thread t in a getter or in the call it makes on what it got
BootStep(t) ==
  \/ RecommenderCheck(t)
  \/ ServiceCheck(t)
  \/ ServiceMake(t)
  \/ GenerateOn(t)
  \/ SaveOn(t)

(* --------------------------- the demo service ------------------------- *)
\* the states a UsageTracker may be in beside the demo service
TrackerStates ==
  {[NewTracker(0) EXCEPT !.daily_count = d, !.hourly_count = h,
                         !.monthly_cost = c] :
     d \in 0 .. max_daily, h \in 0 .. max_hourly, c \in {0, monthly_budget}}

InitDemo ==
  /\ now = 0
  /\ tracker \in TrackerStates
  /\ costSince = tracker.monthly_cost
  /\ daySince = tracker.daily_count
  /\ hourSince = tracker.hourly_count
  /\ Quiet
  /\ credential = TRUE
  /\ service = "live"
  /\ \E categories \in WardrobeLists :
       demo = [wardrobe_items |-> Items(categories), response |-> NoResponse]
  /\ est = NoEst

\* one call of DemoLLMService.generate_outfit_recommendation
DemoRecommend ==
  /\ ~demo.response.returned
  /\ demo' = [demo EXCEPT !.response =
                 demo_generate_outfit_recommendation(demo.wardrobe_items)]
  /\ op' = "demo"
  /\ was' = tracker
  /\ UNCHANGED <<now, tracker, reqVars, ghostVars, credential, service, est,
                 bootVars>>

(* --------------------------- the cost estimate ------------------------ *)
\* the model ids LLM_MODEL may name: those of the table and one outside it
ModelIds == DOMAIN MODEL_COSTS \cup {"gpt-4o"}

\* the token counts a call may be given
TokenCounts == 0 .. MaxTokens \cup {1000}

InitCost ==
  /\ now = 0
  /\ tracker = NewTracker(now)
  /\ costSince = 0
  /\ daySince = 0
  /\ hourSince = 0
  /\ Quiet
  /\ credential = TRUE
  /\ service = "live"
  /\ demo = NoDemo
  /\ est \in [model : ModelIds, input_tokens : TokenCounts,
               output_tokens : TokenCounts, called : {FALSE}, cost : {0}]

\* one call of LLMService._estimate_cost
Estimate ==
  /\ ~est.called
  /\ est' = [est EXCEPT !.called = TRUE,
                        !.cost = estimate_cost(est.model, est.input_tokens,
                                               est.output_tokens)]
  /\ UNCHANGED <<now, tracker, reqVars, ghostVars, op, was, credential,
                 service, demo, bootVars>>

(* ---------------------------- specifications -------------------------- *)
\* the deployed application: the handlers are coroutines that never await,
\* so the event loop runs one request at a time, while the clock advances
Next ==
  \/ Tick
  \/ Save(Loop)
  \/ Usage(Loop)
  \/ UsageCheck(Loop)
  \/ Recommend(Loop)

Spec == Init /\ [][Next]_vars

\* LLMService.generate_outfit_recommendation under concurrent callers, as
\* many as there are threads, within one hour: no clock step
NextConc == \E t \in Threads : Recommend(t)

SpecConc == Init /\ [][NextConc]_vars

(* ------------------------------- claims ------------------------------- *)
\* the reasons of a denial
Denials == {"monthly", "daily", "hourly"}

\* thread t has had its gate checked in its current request
Checked(t) == gate[t].reason # "unchecked"

\* C1: when the gate of a recommendation request denies, the request has
\* failed with the rate-limit error that carries the gate's reason, it has
\* dispatched no external call and made no record_request, and the three
\* counters are what the gate's own reset left.
C1_DenialFailsUncharged ==
  \A t \in Threads :
    (path[t] = "suggest" /\ gate[t].reason \in Denials) =>
      /\ pc[t] = "done"
      /\ ~gate[t].allowed
      /\ outcome[t] = [kind |-> "rate_limit", detail |-> gate[t].reason]
      /\ calls[t] = 0
      /\ recs[t] = 0
      /\ Counts(tracker) = pre[t]

C1_Witness ==
  /\ outcome[Loop].kind = "rate_limit"
  /\ outcome[Loop].detail = "hourly"
  /\ tracker.hourly_count >= max_hourly

\* C2: on the counters its reset leaves, the gate allows with an empty
\* reason exactly when monthly_cost < monthly_budget, daily_count < max_daily
\* and hourly_count < max_hourly; otherwise it denies with one reason, the
\* monthly one before the daily one before the hourly one.
C2_DecisionAndPrecedence ==
  \A t \in Threads :
    Checked(t) =>
      LET d == pre[t][1]
          h == pre[t][2]
          c == pre[t][3]
      IN  /\ gate[t].allowed <=>
               (c < monthly_budget /\ d < max_daily /\ h < max_hourly)
          /\ gate[t].allowed => gate[t].reason = ""
          /\ ~gate[t].allowed =>
               gate[t].reason = IF c >= monthly_budget THEN "monthly"
                                ELSE IF d >= max_daily THEN "daily"
                                ELSE "hourly"

C2_Witness ==
  /\ gate[Loop].reason = "monthly"
  /\ pre[Loop][3] >= monthly_budget
  /\ pre[Loop][1] >= max_daily
  /\ pre[Loop][2] >= max_hourly

\* C3: a gate check made when the costs recorded since the start of the
\* current calendar month sum to at least monthly_budget denies with the
\* monthly reason, and monthly_cost is zeroed only when the calendar month
\* has advanced past monthly_reset.
C3_MonthlyCeilingEveryMonth ==
  [][/\ \A t \in Threads :
          (pc[t] = "gate" /\ pc'[t] # "gate" /\ spent >= monthly_budget) =>
            gate'[t] = [allowed |-> FALSE, reason |-> "monthly"]
     /\ (tracker.monthly_cost > 0 /\ tracker'.monthly_cost = 0) =>
          MonthStart(now) > tracker.monthly_reset.month]_vars

C5_EveryDispatchGated ==
  \A t \in Threads : calls[t] > 0 => (Checked(t) /\ gate[t].allowed)

\* C6: a request makes at most one record_request; it makes it only after
\* its external call was dispatched and has returned, with the cost
\* estimated from the token counts of the response; and a request that is
\* over has made exactly one if its call returned and none otherwise.
C6_RecordedOncePerCompletedCall ==
  \A t \in Threads :
    /\ calls[t] <= 1
    /\ recs[t] <= calls[t]
    /\ recs[t] > 0 =>
         /\ resp[t].content # "none"
         /\ pc[t] \in {"parse", "done"}
         /\ charged[t] =
              estimate_cost(LLM_MODEL, resp[t].tokens[1], resp[t].tokens[2])
    /\ pc[t] = "done" =>
         recs[t] = IF resp[t].content # "none" THEN 1 ELSE 0

C6_Witness ==
  /\ pc[Loop] = "done"
  /\ path[Loop] = "save"
  /\ calls[Loop] = 1
  /\ recs[Loop] = 1
  /\ charged[Loop] = 3

\* C7: a recommendation request whose call returned text that is not JSON
\* has failed, and its cost is recorded: daily_count and hourly_count are one
\* higher, and monthly_cost higher by the estimated cost, than the request
\* found them at its gate.
C7_MalformedStillCharged ==
  \A t \in Threads :
    (pc[t] = "done" /\ path[t] = "suggest" /\ resp[t].content = "text") =>
      /\ outcome[t] = [kind |-> "failed", detail |-> "malformed"]
      /\ recs[t] = 1
      /\ charged[t] =
           estimate_cost(LLM_MODEL, resp[t].tokens[1], resp[t].tokens[2])
      /\ Counts(tracker) =
           <<pre[t][1] + 1, pre[t][2] + 1, pre[t][3] + charged[t]>>

C7_Witness ==
  /\ outcome[Loop] = [kind |-> "failed", detail |-> "malformed"]
  /\ tracker.monthly_cost > pre[Loop][3]
  /\ tracker.hourly_count = pre[Loop][2] + 1

\* C8: a recommendation request whose external call raised has failed with
\* that error and recorded nothing: the three counters are what the request
\* found at its gate.
C8_TransportFailureUncharged ==
  \A t \in Threads :
    (/\ pc[t] = "done"
     /\ path[t] = "suggest"
     /\ calls[t] = 1
     /\ resp[t].content = "none") =>
      /\ outcome[t] = [kind |-> "failed", detail |-> "transport"]
      /\ recs[t] = 0
      /\ Counts(tracker) = pre[t]

C8_Witness ==
  /\ pc[Loop] = "done"
  /\ outcome[Loop] = [kind |-> "failed", detail |-> "transport"]
  /\ calls[Loop] = 1
  /\ tracker.daily_count > 0

\* a recommendation request that was allowed and has not yet recorded
AllowedInFlight(t) ==
  /\ path[t] = "suggest"
  /\ gate[t].allowed
  /\ pc[t] \in {"call", "wait", "ret"}

C11_CountersAreSumsSinceReset ==
  /\ tracker.monthly_cost = costSince
  /\ tracker.daily_count = daySince
  /\ tracker.hourly_count = hourSince

\* a second record_request with a cost in one unreset window
C11_Witness ==
  /\ op = "record_request"
  /\ was.monthly_cost > 0
  /\ was.hourly_count > 0
  /\ tracker.monthly_cost > was.monthly_cost

\* the tracker methods that run reset_if_needed
Checks == {"can_make_request", "get_usage_stats"}

\* C12: a check made on a later date than last_reset_day leaves daily_count
\* at 0, leaves hourly_count as it found it when the hour of the day is
\* still last_reset_hour, and leaves monthly_cost as it found it when the
\* month is still the month of monthly_reset.
C12_DateAdvanceResetsDailyOnly ==
  (op \in Checks /\ DateOf(now) > was.last_reset_day) =>
    /\ tracker.daily_count = 0
    /\ HourOf(now) = was.last_reset_hour =>
         tracker.hourly_count = was.hourly_count
    /\ MonthStart(now) = was.monthly_reset.month =>
         tracker.monthly_cost = was.monthly_cost

\* the daily and hourly parts of C12 taken alone
C12_DailyAndHourlyPart ==
  (op \in Checks /\ DateOf(now) > was.last_reset_day) =>
    /\ tracker.daily_count = 0
    /\ HourOf(now) = was.last_reset_hour =>
         tracker.hourly_count = was.hourly_count

\* C13: a check made in a later month than the month of monthly_reset
\* leaves monthly_cost at 0 and monthly_reset at the first day of the
\* current month, whatever daily_count and hourly_count are.
C13_MonthRolloverResetsCost ==
  (op \in Checks /\ MonthStart(now) > was.monthly_reset.month) =>
    /\ tracker.monthly_cost = 0
    /\ tracker.monthly_reset =
         [is_datetime |-> FALSE, month |-> MonthStart(now)]

\* a month rollover met by a check that finds money spent and the hourly
\* count at its limit, and denies for the hourly limit
C13_Witness ==
  /\ op = "can_make_request"
  /\ MonthStart(now) > was.monthly_reset.month
  /\ was.monthly_cost > 0
  /\ was.hourly_count >= max_hourly
  /\ tracker.hourly_count >= max_hourly
  /\ tracker.monthly_cost = 0
  /\ gate[Loop] = [allowed |-> FALSE, reason |-> "hourly"]

\* C14: a check made in a later wall-clock hour than the one in which
\* hourly_count was last zeroed leaves hourly_count at 0, however many
\* days lie between the two, and a check made on a later date than
\* last_reset_day leaves daily_count at 0.
C14_HourlyResetAfterIdle ==
  op \in Checks =>
    /\ hourResetAt < now => tracker.hourly_count = 0
    /\ DateOf(now) > was.last_reset_day => tracker.daily_count = 0

\* the demo service called on wardrobe lists of every shape, beside a
\* tracker in any state
SpecDemo == InitDemo /\ [][DemoRecommend]_vars

\* the positions of the items of a list that fit a role
Fitting(items, role) ==
  {i \in 1 .. Len(items) :
     IF role = "top" THEN IsTop(items[i]) ELSE IsBottom(items[i])}

\* C15: the demo service returns, as top and as bottom, the id of the
\* first item of the list that fits the role, and leaves a role out when
\* no item fits it; it reports cost 0 and 0 tokens, and it leaves the
\* tracker, and so the answer of can_make_request(), as they were.
C15_DemoPicksFirstAndIsFree ==
  op = "demo" =>
    /\ demo.response.returned
    /\ \A role \in {"top", "bottom"} :
         LET fit == Fitting(demo.wardrobe_items, role)
         IN  IF fit = {}
             THEN role \notin DOMAIN demo.response.outfit
             ELSE /\ role \in DOMAIN demo.response.outfit
                  /\ \E i \in fit :
                       /\ \A j \in fit : i <= j
                       /\ demo.response.outfit[role] =
                            demo.wardrobe_items[i].id
    /\ DOMAIN demo.response.outfit \subseteq {"top", "bottom"}
    /\ demo.response.cost_usd = 0
    /\ demo.response.tokens_used = 0
    /\ tracker = was
    /\ can_make_request(tracker, now).allowed =
         can_make_request(was, now).allowed

\* the demo service answered a list with two tops before its one bottom,
\* beside a tracker at its daily limit
C15_Witness ==
  /\ op = "demo"
  /\ Len(demo.wardrobe_items) = 3
  /\ IsTop(demo.wardrobe_items[1])
  /\ IsTop(demo.wardrobe_items[2])
  /\ IsBottom(demo.wardrobe_items[3])
  /\ demo.response.outfit = [r \in {"top", "bottom"} |->
                               IF r = "top" THEN 1 ELSE 3]
  /\ tracker.daily_count = max_daily
  /\ ~can_make_request(tracker, now).allowed

\* _estimate_cost called on every model id and token counts
SpecCost == InitCost /\ [][Estimate]_vars

\* the rates per 1000 tokens of the rate table, in units of 0.0000005 USD:
\* 0.0005 and 0.0015 USD, 0.03 and 0.06 USD, 0.01 and 0.03 USD
RatePer1000(model) ==
  CASE model = "gpt-4" -> [input |-> 60000, output |-> 120000]
    [] model = "gpt-4-turbo" -> [input |-> 20000, output |-> 60000]
    [] OTHER -> [input |-> 1000, output |-> 3000]

\* C16: the estimated cost is (input_tokens/1000)*input_rate +
\* (output_tokens/1000)*output_rate at the rates of the model, and at the
\* rates of gpt-3.5-turbo for a model outside the table; it is not
\* negative, and 1000 input and 1000 output tokens at the rates 0.0005 and
\* 0.0015 cost 0.002 USD, which is 4000 units.
C16_EstimateIsRateFormula ==
  est.called =>
    /\ 1000 * est.cost =
         est.input_tokens * RatePer1000(est.model).input +
         est.output_tokens * RatePer1000(est.model).output
    /\ est.cost >= 0
    /\ (/\ est.model \notin {"gpt-4", "gpt-4-turbo"}
        /\ est.input_tokens = 1000
        /\ est.output_tokens = 1000) => est.cost = 4000

\* the estimate for a model outside the table, at 1000 and 1000 tokens
C16_Witness ==
  /\ est.called
  /\ est.model \notin DOMAIN MODEL_COSTS
  /\ est.input_tokens = 1000
  /\ est.output_tokens = 1000
  /\ est.cost = 4000

\* the can_make_request entry of the returned dictionary agrees with its
\* own counts and with the cost the tracker holds
Agrees ==
  returned.can_make_request <=>
    /\ returned.daily_requests < max_daily
    /\ returned.hourly_requests < max_hourly
    /\ tracker.monthly_cost < monthly_budget

\* C17: the dictionary get_usage_stats returns shows the counts the
\* tracker holds after its reset, a remaining budget of monthly_budget
\* less monthly_cost rounded to cents and not clamped, and a
\* can_make_request entry that is true exactly when the reported counts
\* are below their limits and monthly_cost is below monthly_budget.
C17_StatsAreOneSnapshot ==
  returned.filled = "all" =>
    /\ returned.daily_requests = tracker.daily_count
    /\ returned.hourly_requests = tracker.hourly_count
    /\ returned.remaining_budget_usd \in
         round_cents(monthly_budget - tracker.monthly_cost)
    /\ Agrees

\* the same for the dictionaries built while the clock stood in one hour
C17_SnapshotWithinOneHour ==
  (returned.filled = "all" /\ op = "can_make_request"
     /\ returned.read_at = now) =>
    /\ returned.daily_requests = tracker.daily_count
    /\ returned.hourly_requests = tracker.hourly_count
    /\ returned.remaining_budget_usd \in
         round_cents(monthly_budget - tracker.monthly_cost)
    /\ Agrees

\* the application from its start, with and without OPENAI_API_KEY; the
\* clock plays no part in the making of the service
NextStart ==
  \/ Start(Loop)
  \/ Save(Loop)
  \/ Usage(Loop)
  \/ UsageCheck(Loop)
  \/ Recommend(Loop)

SpecStart == InitStart /\ [][NextStart]_vars

\* C18: without OPENAI_API_KEY no LLMService is retained, every request
\* that asks for the service fails on its initialization, nothing is
\* dispatched to the external model and the demo service answers nothing.
C18_NoCredentialNoService ==
  ~credential =>
    /\ service = "none"
    /\ ~demo.response.returned
    /\ \A t \in Threads :
         /\ calls[t] = 0
         /\ pc[t] \in {"idle", "done"}
         /\ outcome[t] \in {NoOutcome, [kind |-> "failed", detail |-> "init"]}

\* a request has failed on the initialization of the service
C18_Witness ==
  /\ ~credential
  /\ service = "none"
  /\ pc[Loop] = "done"
  /\ outcome[Loop] = [kind |-> "failed", detail |-> "init"]

\* C19: record_request finds the window that reset_if_needed would leave
\* at that instant, and a check counts every record_request made since
\* the clock entered the current hour and the current day, and, while
\* monthly_reset is as __init__ left it, all the cost recorded since the
\* clock entered the current month.
C19_NoStaleWindow ==
  /\ op = "record_request" =>
       /\ was.last_reset_day = DateOf(now)
       /\ was.last_reset_hour = HourOf(now)
  /\ op \in Checks =>
       /\ tracker.hourly_count >= hourRecs
       /\ tracker.daily_count >= dayRecs
       /\ was.monthly_reset.is_datetime => tracker.monthly_cost >= spent

\* the second half of C19 alone: what a check still counts
C19_RecordsSurviveCheck ==
  op \in Checks =>
    /\ tracker.hourly_count >= hourRecs
    /\ tracker.daily_count >= dayRecs
    /\ was.monthly_reset.is_datetime => tracker.monthly_cost >= spent

\* the deployed application on a wall clock that can be set back
NextSkew ==
  \/ Tick
  \/ ClockBack
  \/ Save(Loop)
  \/ Usage(Loop)
  \/ UsageCheck(Loop)
  \/ Recommend(Loop)

SpecSkew == Init /\ [][NextSkew]_vars

\* a step leaves every counter at or above its value, or at 0
CountersGrowOrReset ==
  /\ tracker'.daily_count >= tracker.daily_count \/ tracker'.daily_count = 0
  /\ tracker'.hourly_count >= tracker.hourly_count
       \/ tracker'.hourly_count = 0
  /\ tracker'.monthly_cost >= tracker.monthly_cost
       \/ tracker'.monthly_cost = 0

\* a step moves no boundary of the tracker to an earlier time
BoundariesForward ==
  /\ tracker'.last_reset_day >= tracker.last_reset_day
  /\ hourResetAt' >= hourResetAt
  /\ tracker'.monthly_reset.month >= tracker.monthly_reset.month

\* C20: the counters are never negative, a step never lowers a counter
\* other than to 0, and no step moves last_reset_day, the hour of the last
\* hourly reset or monthly_reset backward, whatever the wall clock reads.
C20_CountersAndBoundariesMonotone ==
  [][/\ tracker'.daily_count >= 0
     /\ tracker'.hourly_count >= 0
     /\ tracker'.monthly_cost >= 0
     /\ CountersGrowOrReset
     /\ BoundariesForward]_vars

\* the counters' part of C20 alone
C20_CountersPart ==
  [][/\ tracker'.daily_count >= 0
     /\ tracker'.hourly_count >= 0
     /\ tracker'.monthly_cost >= 0
     /\ CountersGrowOrReset]_vars

\* the clock stands at the boundaries the tracker u holds
NoBoundaryCrossed(u, n) ==
  /\ DateOf(n) = u.last_reset_day
  /\ HourOf(n) = u.last_reset_hour
  /\ MonthStart(n) = u.monthly_reset.month

\* C21: a can_make_request() or get_usage_stats() made while the date, the
\* hour and the month are those of the stored boundaries leaves
\* daily_count, hourly_count, monthly_cost, last_reset_day, last_reset_hour
\* and the month of monthly_reset as it found them.
C21_CheckWithoutCrossingIsPure ==
  (op \in Checks /\ NoBoundaryCrossed(was, now)) =>
    /\ Counts(tracker) = Counts(was)
    /\ tracker.last_reset_day = was.last_reset_day
    /\ tracker.last_reset_hour = was.last_reset_hour
    /\ tracker.monthly_reset.month = was.monthly_reset.month

\* the same while monthly_reset is the datetime __init__ stored
C21_PureWhileResetIsDatetime ==
  (op \in Checks /\ NoBoundaryCrossed(was, now)
     /\ was.monthly_reset.is_datetime) =>
    /\ Counts(tracker) = Counts(was)
    /\ tracker.last_reset_day = was.last_reset_day
    /\ tracker.last_reset_hour = was.last_reset_hour
    /\ tracker.monthly_reset.month = was.monthly_reset.month

\* the counts and the boundaries, without monthly_cost
C21_CountsAndBoundariesPart ==
  (op \in Checks /\ NoBoundaryCrossed(was, now)) =>
    /\ tracker.daily_count = was.daily_count
    /\ tracker.hourly_count = was.hourly_count
    /\ tracker.last_reset_day = was.last_reset_day
    /\ tracker.last_reset_hour = was.last_reset_hour
    /\ tracker.monthly_reset.month = was.monthly_reset.month

\* the event loop has an outfit-suggestion request that is over
SuggestOver == path[Loop] = "suggest" /\ pc[Loop] = "done"

\* that request failed in the generation: the external call raised, or its
\* text was not JSON
GenerationFailed ==
  /\ outcome[Loop].kind = "failed"
  /\ outcome[Loop].detail \in {"transport", "malformed"}

\* C22: an outfit-suggestion request is answered with status 429 exactly
\* when its usage gate denied, and every request whose generation failed,
\* by a transport failure or by a response that is not JSON, is answered
\* with status 500.
C22_Only429ForDenial ==
  SuggestOver =>
    /\ http.status = 429 <=> outcome[Loop].kind = "rate_limit"
    /\ GenerationFailed => http.status = 500

\* the parts of C22 that do not depend on the text of a transport failure:
\* every denial is answered with 429 and carries the gate's message, a
\* response that is not JSON is answered with 500, and no failure is
\* answered as a success
C22_DenialIs429AndNoneSwallowed ==
  SuggestOver =>
    /\ outcome[Loop].kind = "rate_limit" =>
         http = [status |-> 429, detail |-> GateError(outcome[Loop].detail)]
    /\ (outcome[Loop].kind = "failed" /\ outcome[Loop].detail = "malformed") =>
         http.status = 500
    /\ GenerationFailed => http.status \in {429, 500}
    /\ http.status = 200 <=> outcome[Loop].kind \in {"ok", "not_fulfilled"}

\* suggest_outfit and save_outfit called from threads that interleave
\* inside get_outfit_recommender and get_llm_service
NextBoot == \E t \in Threads : BootStep(t)

SpecBoot == InitBoot /\ [][NextBoot]_vars

\* the same on the event loop alone, one handler at a time
SpecBootLoop == InitBoot /\ [][BootStep(Loop)]_vars

\* the record_request calls made on the trackers us, all told
RECURSIVE Recorded(_)
Recorded(us) ==
  IF us = <<>> THEN 0 ELSE Head(us).daily_count + Recorded(Tail(us))

\* every holder of an LLMService holds the one _llm_service names, and its
\* tracker has counted every record_request made in the process
OneLedger ==
  /\ \A t \in Threads : boot[t].got # 0 => boot[t].got = llm_service
  /\ outfit_recommender # 0 => outfit_recommender = llm_service
  /\ llm_service # 0 =>
       instances[llm_service].daily_count = Recorded(instances)

Denying == ~can_make_request(tracker, now).allowed

\* C24: within one hour of the clock, and so within one day and one month,
\* once the decision of can_make_request() is a denial it stays a denial
\* through every step, record_request and get_usage_stats included; a gate
\* check made then denies, the can_make_request entry that get_usage_stats
\* fills in then is false, and a check that denied leaves a tracker on
\* which the decision is a denial.
C24_DenialStableWithinWindow ==
  [][/\ (Denying /\ now' = now) =>
          /\ Denying'
          /\ \A t \in Threads :
               /\ (pc[t] = "gate" /\ pc'[t] # "gate") => ~gate'[t].allowed
               /\ (pc[t] = "stats" /\ pc'[t] = "done") =>
                    ~returned'.can_make_request
     /\ \A t \in Threads :
          (pc[t] = "gate" /\ pc'[t] # "gate" /\ ~gate'[t].allowed) => Denying'
    ]_vars

\* a gate denies on a tracker that counted a record_request of this hour
\* after max_hourly was reached: save_outfit recorded while the decision
\* was a denial, and the later check denies
C24_Witness ==
  /\ op = "can_make_request"
  /\ ~gate[Loop].allowed
  /\ outcome[Loop].kind = "rate_limit"
  /\ hourOK
  /\ hourRecs > max_hourly
  /\ was.hourly_count = hourRecs

\* C25: a request that generate_outfit answered with request_fulfilled =
\* false for an empty wardrobe is over with a plain response, has had no
\* gate check, has dispatched no external call and has made no
\* record_request, has called no method of the tracker, and has left the
\* three counters as it found them.
C25_EmptyWardrobeTouchesNothing ==
  outcome[Loop].kind = "not_fulfilled" =>
    /\ pc[Loop] = "done"
    /\ path[Loop] = "suggest"
    /\ http = Ok200
    /\ gate[Loop] = NoGate
    /\ calls[Loop] = 0
    /\ recs[Loop] = 0
    /\ charged[Loop] = 0
    /\ op = "none"
    /\ Counts(tracker) = pre[Loop]

\* an empty wardrobe answered while the tracker is at its daily limit and
\* the gate would have denied
C25_Witness ==
  /\ outcome[Loop].kind = "not_fulfilled"
  /\ http = Ok200
  /\ tracker.daily_count >= max_daily
  /\ ~can_make_request(tracker, now).allowed
  /\ Counts(tracker) = pre[Loop]

====
